---- MODULE Spec2Model ----
(***************************************************************************)
(* Sale Transaction Engine of the POS backend: createSale (controller and  *)
(* legacy route), updateSale, deleteSale, over a MongoDB store with        *)
(* multi-document transactions (snapshot isolation, write conflicts,       *)
(* unique index on Sale.saleNo); and the other writers of the same data:   *)
(* adjustInventory, batchAdjustInventory, transferInventory, and the       *)
(* login and refresh routes of the account the cashier works under.        *)
(*                                                                         *)
(* Money is held in integer minor units; the catalog and the carts are     *)
(* chosen so that the division by 100 of the tax formula is exact.         *)
(* An optional JavaScript value is a sequence: << >> is undefined, <<v>>   *)
(* is the value v.                                                         *)
(***************************************************************************)
EXTENDS Integers, Sequences, FiniteSets, TLC

VARIABLES
  stock,      \* committed Product.stock, per product id
  inv,        \* committed Inventory.quantity of the store, per product id (optional)
  sales,      \* committed Sale documents
  sourced,    \* committed SourcedItem documents
  now,        \* last value returned by Date.now()
  attempts,   \* number of create-sale requests received so far
  pc,         \* per request handler: the await it is suspended at
  req,        \* per request handler: req.body
  loc,        \* per request handler: the local variables of createSale
  txn,        \* per request handler: its session's transaction
  res,        \* per request handler: the response sent
  err,        \* per request handler: the error caught
  hist,       \* history: what the store held when the attempt started
  init0,      \* history: what the store held initially
  updates,    \* number of updateSale and deleteSale requests served so far
  ledger,     \* per store: the Inventory documents of one product (their quantities)
  tokens,     \* the RefreshToken documents of one user
  user        \* the User document of one account

vars == <<stock, inv, sales, sourced, now, attempts, pc, req, loc, txn, res, err, hist, init0,
          updates, ledger, tokens, user>>

\* What createSale, updateSale and deleteSale never touch.
others == <<ledger, tokens, user>>

(* ------------------------------ bounds -------------------------------- *)

MaxStock == 3
MaxClock == 1
MaxAttempts == 2
MaxUpdates == 2
MaxSeconds == 3

Procs == {1, 2}

(* ------------------------------ values -------------------------------- *)

Undefined == << >>
Some(v) == <<v>>
IsDefined(v) == v # Undefined
\* JavaScript `v || d` for an optional number.
OrElse(v, d) == IF v = Undefined \/ v[1] = 0 THEN d ELSE v[1]

RECURSIVE SumSeq(_)
SumSeq(s) == IF s = << >> THEN 0 ELSE s[1] + SumSeq(Tail(s))

(* ------------------------------ catalog ------------------------------- *)

Stores == {"s1", "s2"}

\* userSchema: a new account has no failed attempt and no lock.
NewUser == [loginAttempts |-> 0, lockUntil |-> Undefined]

\* Product documents: the fields createSale reads besides stock.
Catalog ==
  [ p1 |-> [name |-> "p1", price |-> 2000, taxRate |-> Some(5), isActive |-> TRUE,
            variants |-> << >>],
    p2 |-> [name |-> "p2", price |-> 300, taxRate |-> Undefined, isActive |-> TRUE,
            variants |-> << [price |-> 500] >>],
    p3 |-> [name |-> "p3", price |-> 100, taxRate |-> Some(0), isActive |-> FALSE,
            variants |-> << >>],
    p4 |-> [name |-> "p4", price |-> 0, taxRate |-> Some(0), isActive |-> TRUE,
            variants |-> << >>],
    p5 |-> [name |-> "p5", price |-> 800, taxRate |-> Some(10), isActive |-> TRUE,
            variants |-> << [price |-> 1000] >>] ]

Products == DOMAIN Catalog

\* Products whose counters the carts below can reach.
Stocked == {"p1", "p2"}

Item(p, q) ==
  [productId |-> p, quantity |-> q, variantId |-> Undefined, discount |-> Undefined,
   isSourced |-> FALSE, sourcingCost |-> Undefined, price |-> Undefined]

SourcedItem(p, q, cost, price) ==
  [Item(p, q) EXCEPT !.isSourced = TRUE, !.sourcingCost = cost, !.price = price]

Body(items) == [storeId |-> Some("s1"), items |-> Some(items)]

\* Requests sent while several handlers run concurrently.
CartsConc ==
  { Body(<< Item("p1", 2) >>),
    Body(<< Item("p1", 1), Item("p2", 3) >>),
    Body(<< Item("p2", 1), Item("p1", 2) >>),
    Body(<< SourcedItem("p1", 2, Some(800), Some(1500)), Item("p1", 1) >>),
    Body(<< Item("p2", 1) >>),
    [storeId |-> Undefined, items |-> Some(<< Item("p1", 1) >>)] }

\* Requests sent one at a time.
CartsSeq ==
  CartsConc \cup
  { Body(<< [Item("p1", 2) EXCEPT !.discount = Some(100)],
            [Item("p2", 1) EXCEPT !.variantId = Some(0)] >>),
    Body(<< SourcedItem("p1", 2, Some(800), Some(1500)),
            SourcedItem("p2", 3, Undefined, Undefined) >>),
    Body(<< Item("p2", 1), Item("p3", 1) >>),
    Body(<< Item("p1", 1), Item("p4", 1) >>),
    Body(<< Item("p1", 1), Item("px", 1) >>),
    Body(<< [Item("p2", 2) EXCEPT !.variantId = Some(1)] >>),
    Body(<< Item("p2", 2) >>),
    Body(<< SourcedItem("p1", 1, Some(800), Some(1500)) >>),
    Body(<< Item("p1", 2), Item("p1", 2) >>),
    Body(<< Item("p1", -1) >>),
    Body(<< >>),
    [storeId |-> Some("s1"), items |-> Undefined] }

\* Requests a client sends again after it has sent them once.
CartsRetry ==
  { Body(<< Item("p5", 1), Item("p5", 1) >>),
    Body(<< Item("p1", 1) >>),
    Body(<< SourcedItem("p1", 2, Some(800), Some(1500)), Item("p2", 1) >>),
    Body(<< Item("p1", 3) >>) }

(* --------------------------- the transaction -------------------------- *)

ProductKey(p) == <<"product", p>>
InventoryKey(p) == <<"inventory", p>>

NoTxn ==
  [state |-> "none", snapInv |-> [p \in Products |-> Undefined],
   wStock |-> [p \in Products |-> Undefined],
   wInv |-> [p \in Products |-> Undefined],
   wSale |-> Undefined, wSourced |-> << >>, stale |-> {}]

\* session.startTransaction(): nothing is sent to the server yet.
StartedTxn == [NoTxn EXCEPT !.state = "starting"]

\* The documents a transaction has written.
Written(t) ==
  {ProductKey(p) : p \in {x \in Products : IsDefined(t.wStock[x])}} \cup
  {InventoryKey(p) : p \in {x \in Products : IsDefined(t.wInv[x])}}

\* The first operation carrying the session opens the snapshot.
Touch(t) ==
  IF t.state = "starting"
    THEN [t EXCEPT !.state = "active", !.snapInv = inv, !.stale = {}]
    ELSE t

\* A write conflicts with a concurrent transaction's uncommitted write of the
\* document, and with a write committed after this transaction's snapshot.
WriteConflict(p, key) ==
  \/ key \in Touch(txn[p]).stale
  \/ \E q \in Procs \ {p} : txn[q].state = "active" /\ key \in Written(txn[q])

\* The server aborts a transaction whose write conflicts.
ServerAborted(t) == [NoTxn EXCEPT !.state = "aborted"]

InitLoc ==
  [i |-> 0, productId |-> "", productStock |-> 0, inventoryQuantity |-> 0, quantity |-> 0,
   saleItems |-> << >>, sourcedItemsToCreate |-> << >>,
   subtotal |-> 0, totalDiscount |-> 0, tax |-> 0, nan |-> FALSE, sale |-> Undefined,
   aid |-> 0, handler |-> "controller"]

Init ==
  /\ stock \in { [p \in Products |-> IF p = "p1" THEN a ELSE IF p = "p2" THEN 2
                                      ELSE IF p = "p5" THEN MaxStock + 1 ELSE 1] :
                   a \in (MaxStock - 1)..MaxStock }
  /\ inv \in { [p \in Products |-> IF p = "p1" THEN b ELSE Undefined] :
                   b \in {Undefined} \cup {Some(q) : q \in (MaxStock - 1)..(MaxStock + 1)} }
  /\ sales = {}
  /\ sourced = {}
  /\ now = 0
  /\ attempts = 0
  /\ pc = [p \in Procs |-> "idle"]
  /\ req = [p \in Procs |-> Body(<< >>)]
  /\ loc = [p \in Procs |-> InitLoc]
  /\ txn = [p \in Procs |-> NoTxn]
  /\ res = [p \in Procs |-> "none"]
  /\ err = [p \in Procs |-> "none"]
  /\ hist = [p \in Procs |-> [stock |-> stock, inv |-> inv, clean |-> TRUE]]
  /\ init0 = [stock |-> stock, inv |-> inv]
  /\ updates = 0
  /\ ledger = [s \in Stores |-> << >>]
  /\ tokens = {}
  /\ user = NewUser

(* ------------------------- price and line totals ---------------------- *)

\* A handler that does not read the sourced flag (as route/sales.js).
IsSourcedIgnored(item) == FALSE

\* Lines 146-148: the sourced flag and the sourcing cost of a cart line.
IsSourced(item) == item.isSourced
SourcingCost(item) == OrElse(item.sourcingCost, 0)

\* Lines 151-165: the unit price of a cart line.
UnitPrice(item, product) ==
  IF IsSourced(item) /\ OrElse(item.price, 0) # 0
    THEN item.price[1]
    ELSE IF IsDefined(item.variantId) /\ Len(product.variants) > 0
      THEN IF (item.variantId[1] + 1) \in DOMAIN product.variants
             THEN product.variants[item.variantId[1] + 1].price
             ELSE 0
      ELSE product.price

\* Lines 172-176: tax and total of a cart line.
ItemSubtotal(item, product) == UnitPrice(item, product) * item.quantity
ItemDiscount(item) == OrElse(item.discount, 0)
ItemTax(item, product) ==
  ((ItemSubtotal(item, product) - ItemDiscount(item)) * OrElse(product.taxRate, 0)) \div 100
ItemTotal(item, product) ==
  ItemSubtotal(item, product) - ItemDiscount(item) + ItemTax(item, product)

\* Lines 178-189: the line item pushed on saleItems. (saleItemSchema of
\* model/Sale.js declares no isSourced and no sourcingCost path; the two fields
\* are kept on the modelled document to tell which lines drew on stock.)
SaleItem(item, product) ==
  [productId |-> item.productId, variantId |-> item.variantId,
   productName |-> product.name, quantity |-> item.quantity,
   unitPrice |-> UnitPrice(item, product), discount |-> ItemDiscount(item),
   tax |-> ItemTax(item, product), total |-> ItemTotal(item, product),
   isSourced |-> IsSourced(item), sourcingCost |-> SourcingCost(item)]

\* Lines 192-201: the record pushed on sourcedItemsToCreate.
SourcedRecord(item, product, storeId) ==
  [storeId |-> storeId, productId |-> item.productId, productName |-> product.name,
   quantity |-> item.quantity, sourcingCost |-> SourcingCost(item),
   salePrice |-> UnitPrice(item, product),
   profit |-> (UnitPrice(item, product) - SourcingCost(item)) * item.quantity]

\* Line 210: the sufficiency test on the product counter.
InsufficientStock(available, quantity) == available < quantity

\* A test that only asks for something on hand.
InsufficientInventoryPositive(available, quantity) == available <= 0

\* Line 223: the sufficiency test on the store's inventory record.
InsufficientInventory(available, quantity) == available < quantity

(* ------------------------------ createSale ---------------------------- *)

Items(p) == req[p].items[1]
CurrentItem(p) == Items(p)[loc[p].i]

\* throw: control passes to the catch block, which awaits abortTransaction.
Throw(p, e) ==
  /\ pc' = [pc EXCEPT ![p] = "abort"]
  /\ err' = [err EXCEPT ![p] = e]

\* The loop of lines 138-230 after line i: the next line, or the sale number.
AfterLine(p) ==
  IF loc[p].handler = "controller"
    THEN IF loc[p].i < Len(Items(p)) THEN "findProduct" ELSE "countSales"
    ELSE IF loc[p].i < Len(Items(p)) THEN "legacyFindProduct" ELSE "legacyCountSales"

\* Lines 115-116: a request arrives; the session and its transaction are started.
StartSession(p, body) ==
  /\ pc[p] \in {"idle", "done"}
  /\ attempts < MaxAttempts
  /\ attempts' = attempts + 1
  /\ pc' = [pc EXCEPT ![p] = "validate"]
  /\ req' = [req EXCEPT ![p] = body]
  /\ loc' = [loc EXCEPT ![p] = [InitLoc EXCEPT !.aid = attempts + 1]]
  /\ txn' = [txn EXCEPT ![p] = StartedTxn]
  /\ res' = [res EXCEPT ![p] = "none"]
  /\ err' = [err EXCEPT ![p] = "none"]
  /\ hist' = [hist EXCEPT ![p] = [stock |-> stock, inv |-> inv, clean |-> TRUE]]
  /\ UNCHANGED <<stock, inv, sales, sourced, now, init0, updates, others>>

\* Lines 119-136: the required fields.
Validate(p) ==
  /\ pc[p] = "validate"
  /\ IF ~IsDefined(req[p].storeId)
       THEN Throw(p, "Store ID is required") /\ UNCHANGED loc
       ELSE IF ~IsDefined(req[p].items) \/ Len(req[p].items[1]) = 0
         THEN Throw(p, "At least one item is required") /\ UNCHANGED loc
         ELSE /\ pc' = [pc EXCEPT ![p] = "findProduct"]
              /\ UNCHANGED err
              /\ UNCHANGED loc
  /\ UNCHANGED <<stock, inv, sales, sourced, now, attempts, req, txn, res, hist, init0, updates, others>>

\* Lines 138-215: Product.findById (no session: the committed document), the
\* checks, the price, the totals and the decrement of the loaded document, up to
\* the next await.
FindProduct(p) ==
  /\ pc[p] = "findProduct"
  /\ LET i == loc[p].i + 1
         item == Items(p)[i]
     IN IF item.productId \notin Products
          THEN Throw(p, "Product not found") /\ loc' = [loc EXCEPT ![p].i = i]
          ELSE
       LET product == Catalog[item.productId]
           l1 == [loc[p] EXCEPT
                    !.i = i,
                    !.productId = item.productId,
                    !.quantity = item.quantity,
                    !.productStock = stock[item.productId],
                    !.saleItems = Append(@, SaleItem(item, product)),
                    !.sourcedItemsToCreate =
                       IF IsSourced(item)
                         THEN Append(@, SourcedRecord(item, product, req[p].storeId[1]))
                         ELSE @,
                    !.subtotal = @ + ItemSubtotal(item, product),
                    !.totalDiscount = @ + ItemDiscount(item),
                    !.tax = @ + ItemTax(item, product)]
       IN IF ~product.isActive
            THEN Throw(p, "Product is not active") /\ loc' = [loc EXCEPT ![p].i = i]
          ELSE IF UnitPrice(item, product) = 0
            THEN Throw(p, "Price not found") /\ loc' = [loc EXCEPT ![p].i = i]
          ELSE IF IsSourced(item)
            THEN /\ loc' = [loc EXCEPT ![p] = l1]
                 /\ pc' = [pc EXCEPT ![p] =
                             IF i < Len(Items(p)) THEN "findProduct" ELSE "countSales"]
                 /\ UNCHANGED err
          ELSE IF InsufficientStock(stock[item.productId], item.quantity)
            THEN Throw(p, "Insufficient stock") /\ loc' = [loc EXCEPT ![p] = l1]
          ELSE /\ loc' = [loc EXCEPT ![p] = [l1 EXCEPT !.productStock = @ - item.quantity]]
               /\ pc' = [pc EXCEPT ![p] = "saveProduct"]
               /\ UNCHANGED err
  /\ UNCHANGED <<stock, inv, sales, sourced, now, attempts, req, txn, res, hist, init0, updates, others>>

\* product.save() without the session: the write is committed at once.
StageProductNoSession(p) ==
  /\ stock' = [stock EXCEPT ![loc[p].productId] = loc[p].productStock]
  /\ UNCHANGED txn

\* The quantity taken off twice.
StageProductTwice(p) ==
  /\ txn' = [txn EXCEPT ![p] =
               [Touch(@) EXCEPT !.wStock[loc[p].productId] =
                                   Some(loc[p].productStock - loc[p].quantity)]]
  /\ UNCHANGED <<stock>>

\* Line 216: product.save({ session }) stages $set stock in the transaction.
StageProduct(p) ==
  /\ txn' = [txn EXCEPT ![p] = [Touch(@) EXCEPT !.wStock[loc[p].productId] = Some(loc[p].productStock)]]
  /\ UNCHANGED <<stock>>

SaveProduct(p) ==
  /\ pc[p] = "saveProduct"
  /\ IF loc[p].productStock < 0
       THEN Throw(p, "ValidationError") /\ UNCHANGED <<txn, stock>>
       ELSE IF WriteConflict(p, ProductKey(loc[p].productId))
         THEN /\ Throw(p, "WriteConflict")
              /\ txn' = [txn EXCEPT ![p] = ServerAborted(@)]
              /\ UNCHANGED stock
         ELSE /\ StageProduct(p)
              /\ pc' = [pc EXCEPT ![p] = "findInventory"]
              /\ UNCHANGED err
  /\ UNCHANGED <<inv, sales, sourced, now, attempts, req, loc, res, hist, init0, updates, others>>

\* What a read in the session returns for the inventory record: the
\* transaction's own write, else the snapshot.
ReadInventory(t, productId) ==
  IF IsDefined(t.wInv[productId]) THEN t.wInv[productId] ELSE t.snapInv[productId]

\* Lines 221-226: Inventory.findOne({ productId, storeId }).session(session), the
\* check and the decrement of the loaded document. No record matches an undefined
\* storeId (which only the legacy route lets through).
FindInventory(p) ==
  /\ pc[p] = "findInventory"
  /\ LET t == Touch(txn[p])
         inventory == IF IsDefined(req[p].storeId)
                        THEN ReadInventory(t, loc[p].productId)
                        ELSE Undefined
     IN /\ txn' = [txn EXCEPT ![p] = t]
        /\ IF ~IsDefined(inventory)
             THEN /\ pc' = [pc EXCEPT ![p] = AfterLine(p)]
                  /\ UNCHANGED <<err, loc>>
             ELSE IF InsufficientInventory(inventory[1], loc[p].quantity)
               THEN Throw(p, "Insufficient inventory") /\ UNCHANGED loc
               ELSE /\ loc' = [loc EXCEPT ![p].inventoryQuantity = inventory[1] - loc[p].quantity]
                    /\ pc' = [pc EXCEPT ![p] = "saveInventory"]
                    /\ UNCHANGED err
  /\ UNCHANGED <<stock, inv, sales, sourced, now, attempts, req, res, hist, init0, updates, others>>

\* Line 227: inventory.save({ session }).
SaveInventory(p) ==
  /\ pc[p] = "saveInventory"
  /\ IF WriteConflict(p, InventoryKey(loc[p].productId))
       THEN /\ Throw(p, "WriteConflict")
            /\ txn' = [txn EXCEPT ![p] = ServerAborted(@)]
       ELSE /\ txn' = [txn EXCEPT ![p].wInv[loc[p].productId] = Some(loc[p].inventoryQuantity)]
            /\ pc' = [pc EXCEPT ![p] = AfterLine(p)]
            /\ UNCHANGED err
  /\ UNCHANGED <<stock, inv, sales, sourced, now, attempts, req, loc, res, hist, init0, updates, others>>

\* Line 234: `SALE-${Date.now()}-${saleCount}`; the two numbers determine the string.
SaleNo(time, saleCount) == <<"SALE", time, saleCount>>

\* Lines 237-251: the Sale document.
NewSale(p, saleNo) ==
  [id |-> loc[p].aid, saleNo |-> saleNo, storeId |-> req[p].storeId[1],
   items |-> loc[p].saleItems, subtotal |-> loc[p].subtotal,
   discount |-> loc[p].totalDiscount, tax |-> loc[p].tax,
   total |-> loc[p].subtotal - loc[p].totalDiscount + loc[p].tax,
   status |-> "completed", notes |-> << >>]

\* Lines 233-251: Sale.countDocuments() (no session: the committed sales),
\* Date.now(), and the Sale document built from the totals.
CountSales(p) ==
  /\ pc[p] = "countSales"
  /\ \E t \in now..MaxClock :
       /\ now' = t
       /\ loc' = [loc EXCEPT ![p].sale = Some(NewSale(p, SaleNo(t, Cardinality(sales))))]
  /\ pc' = [pc EXCEPT ![p] = "saveSale"]
  /\ UNCHANGED <<stock, inv, sales, sourced, attempts, req, txn, res, err, hist, init0, updates, others>>

\* A saleNo without its unique index.
DuplicateKeyNoIndex(saleNo) == FALSE

\* The unique index on saleNo (Sale.js 38-42) against the committed sales.
DuplicateKey(saleNo) == \E s \in sales : s.saleNo = saleNo

\* The unique index against an insert another transaction has not committed yet.
IndexConflict(p, saleNo) ==
  \E q \in Procs \ {p} :
     /\ txn[q].state = "active"
     /\ IsDefined(txn[q].wSale)
     /\ txn[q].wSale[1].saleNo = saleNo

\* Line 253: sale.save({ session }).
SaveSale(p) ==
  /\ pc[p] = "saveSale"
  /\ LET sale == loc[p].sale[1]
     IN IF DuplicateKey(sale.saleNo)
          THEN Throw(p, "E11000 duplicate key") /\ txn' = [txn EXCEPT ![p] = Touch(@)]
          ELSE IF IndexConflict(p, sale.saleNo)
            THEN /\ Throw(p, "WriteConflict")
                 /\ txn' = [txn EXCEPT ![p] = ServerAborted(@)]
            ELSE /\ txn' = [txn EXCEPT ![p] = [Touch(@) EXCEPT !.wSale = Some(sale)]]
                 /\ pc' = [pc EXCEPT ![p] =
                             IF loc[p].handler = "legacy" THEN "legacyCommit"
                             ELSE IF Len(loc[p].sourcedItemsToCreate) > 0
                               THEN "insertSourced" ELSE "commit"]
                 /\ UNCHANGED err
  /\ UNCHANGED <<stock, inv, sales, sourced, now, attempts, req, loc, res, hist, init0, updates, others>>

\* insertMany without the session: the records are committed at once.
InsertSourcedNoSession(p) ==
  /\ pc[p] = "insertSourced"
  /\ sourced' = sourced \cup
       {[doc |-> loc[p].sourcedItemsToCreate[k], saleId |-> loc[p].sale[1].id, n |-> k] :
          k \in DOMAIN loc[p].sourcedItemsToCreate}
  /\ pc' = [pc EXCEPT ![p] = "commit"]
  /\ UNCHANGED <<stock, inv, sales, now, attempts, req, loc, txn, res, err, hist, init0, updates, others>>

\* The records inserted as staged, without the parent's identifier.
InsertSourcedNoSaleId(p) ==
  /\ pc[p] = "insertSourced"
  /\ txn' = [txn EXCEPT ![p].wSourced =
               [k \in DOMAIN loc[p].sourcedItemsToCreate |->
                  [doc |-> loc[p].sourcedItemsToCreate[k], saleId |-> 0, n |-> k]]]
  /\ pc' = [pc EXCEPT ![p] = "commit"]
  /\ UNCHANGED <<stock, inv, sales, sourced, now, attempts, req, loc, res, err, hist, init0, updates, others>>

\* Lines 256-260: SourcedItem.insertMany(sourcedDocs, { session }).
InsertSourced(p) ==
  /\ pc[p] = "insertSourced"
  /\ txn' = [txn EXCEPT ![p].wSourced =
               [k \in DOMAIN loc[p].sourcedItemsToCreate |->
                  [doc |-> loc[p].sourcedItemsToCreate[k], saleId |-> loc[p].sale[1].id,
                   n |-> k]]]
  /\ pc' = [pc EXCEPT ![p] = "commit"]
  /\ UNCHANGED <<stock, inv, sales, sourced, now, attempts, req, loc, res, err, hist, init0, updates, others>>

\* What a committed transaction leaves of a collection of counters.
ApplyStock(old, writes) ==
  [x \in DOMAIN old |-> IF IsDefined(writes[x]) THEN writes[x][1] ELSE old[x]]
ApplyInventory(old, writes) ==
  [x \in DOMAIN old |-> IF IsDefined(writes[x]) THEN writes[x] ELSE old[x]]

\* The other handlers, after handler p has committed: their snapshots are older
\* than the documents p wrote, and the store is no longer as their attempt found it.
AfterCommitBy(p) ==
  /\ txn' = [q \in Procs |->
               IF q = p THEN [NoTxn EXCEPT !.state = "committed"]
               ELSE IF txn[q].state = "active"
                 THEN [txn[q] EXCEPT !.stale = @ \cup Written(txn[p])]
                 ELSE txn[q]]
  /\ hist' = [q \in Procs |-> IF q = p THEN hist[q] ELSE [hist[q] EXCEPT !.clean = FALSE]]

\* Line 262: session.commitTransaction() makes the staged writes visible.
CommitTransaction(p) ==
  /\ stock' = ApplyStock(stock, txn[p].wStock)
  /\ inv' = ApplyInventory(inv, txn[p].wInv)
  /\ sales' = sales \cup {txn[p].wSale[1]}
  /\ sourced' = sourced \cup {txn[p].wSourced[k] : k \in DOMAIN txn[p].wSourced}
  /\ AfterCommitBy(p)

Commit(p) ==
  /\ pc[p] = "commit"
  /\ \/ /\ CommitTransaction(p)
        /\ pc' = [pc EXCEPT ![p] = "populate"]
        /\ UNCHANGED err
     \/ \* the commit fails (the connection, the server): the catch block runs
        /\ Throw(p, "commit failed")
        /\ txn' = [txn EXCEPT ![p] = ServerAborted(@)]
        /\ UNCHANGED <<stock, inv, sales, sourced, hist>>
  /\ UNCHANGED <<now, attempts, req, loc, res, init0, updates, others>>

\* Lines 265-270: the sale is read back and sent with status 201. When the read
\* throws, the catch block (272-274) calls abortTransaction on a transaction that
\* is committed: the driver either rejects it, and no response is sent, or lets it
\* pass, and 400 is sent.
Populate(p) ==
  /\ pc[p] = "populate"
  /\ \/ /\ res' = [res EXCEPT ![p] = "201"]
        /\ UNCHANGED err
     \/ /\ err' = [err EXCEPT ![p] = "populate failed"]
        /\ \E r \in {"400", "none"} : res' = [res EXCEPT ![p] = r]
  /\ pc' = [pc EXCEPT ![p] = "done"]
  /\ UNCHANGED <<stock, inv, sales, sourced, now, attempts, req, loc, txn, hist, init0, updates, others>>

\* A catch block that answers 400 without aborting, and no finally.
AbortLeavesOpen(p) ==
  /\ pc[p] = "abort"
  /\ res' = [res EXCEPT ![p] = "400"]
  /\ pc' = [pc EXCEPT ![p] = "done"]
  /\ UNCHANGED <<stock, inv, sales, sourced, now, attempts, req, loc, txn, err, hist, init0, updates, others>>

\* Lines 271-277: the catch block: abortTransaction discards what the
\* transaction staged, 400 is sent, the session is ended.
Abort(p) ==
  /\ pc[p] = "abort"
  /\ txn' = [txn EXCEPT ![p] = [NoTxn EXCEPT !.state = "aborted"]]
  /\ res' = [res EXCEPT ![p] = "400"]
  /\ pc' = [pc EXCEPT ![p] = "done"]
  /\ UNCHANGED <<stock, inv, sales, sourced, now, attempts, req, loc, err, hist, init0, updates, others>>

CreateSaleStep(p) ==
  \/ Validate(p)
  \/ FindProduct(p)
  \/ SaveProduct(p)
  \/ FindInventory(p)
  \/ SaveInventory(p)
  \/ CountSales(p)
  \/ SaveSale(p)
  \/ InsertSourced(p)
  \/ Commit(p)
  \/ Populate(p)
  \/ Abort(p)

(* ------------------------ concurrent createSale ----------------------- *)

\* Each handler serves one request; the requests overlap in every possible way.
Next ==
  \/ \E p \in Procs : \E body \in CartsConc : pc[p] = "idle" /\ StartSession(p, body)
  \/ \E p \in Procs : CreateSaleStep(p)

Spec == Init /\ [][Next]_vars

(* ------------------------ updateSale, deleteSale ---------------------- *)

\* What a request may send as status and as notes.
StatusInputs ==
  {Undefined, Some("completed"), Some("refunded"), Some("partially_refunded"), Some("due")}
NotesInputs == {Undefined, Some(<< "note" >>)}

\* An update that also writes the amounts: a refund that zeroes the total.
UpdatedSaleAmounts(sale, notes, status) ==
  [sale EXCEPT
     !.notes = IF IsDefined(notes) THEN notes[1] ELSE @,
     !.status = IF IsDefined(status)
                   /\ status[1] \in {"completed", "refunded", "partially_refunded"}
                  THEN status[1] ELSE @,
     !.total = IF status = Some("refunded") THEN 0 ELSE @]

\* Lines 361-364: only notes and status are taken from the request.
UpdatedSale(sale, notes, status) ==
  [sale EXCEPT
     !.notes = IF IsDefined(notes) THEN notes[1] ELSE @,
     !.status = IF IsDefined(status)
                   /\ status[1] \in {"completed", "refunded", "partially_refunded"}
                  THEN status[1] ELSE @]

\* Lines 351-377: updateSale.
UpdateSale(id, notes, status) ==
  /\ updates < MaxUpdates
  /\ updates' = updates + 1
  /\ \E sale \in sales :
       /\ sale.id = id
       /\ sales' = (sales \ {sale}) \cup {UpdatedSale(sale, notes, status)}
  /\ UNCHANGED <<stock, inv, sourced, now, attempts, pc, req, loc, txn, res, err, hist, init0, others>>

\* Lines 390-391: the sale is marked, not removed.
CancelledSale(sale) ==
  [sale EXCEPT !.status = "refunded", !.notes = Append(@, "[CANCELLED]")]

\* Lines 382-398: deleteSale.
DeleteSale(id) ==
  /\ updates < MaxUpdates
  /\ updates' = updates + 1
  /\ \E sale \in sales :
       /\ sale.id = id
       /\ sales' = (sales \ {sale}) \cup {CancelledSale(sale)}
  /\ UNCHANGED <<stock, inv, sourced, now, attempts, pc, req, loc, txn, res, err, hist, init0, others>>

(* ---------------------- createSale, one at a time --------------------- *)

NextSeq ==
  \/ \E body \in CartsSeq : StartSession(1, body)
  \/ CreateSaleStep(1)

SpecSeq == Init /\ [][NextSeq]_vars

(* ------------------ createSale, then updateSale, deleteSale ----------- *)

\* The sales that are updated and deleted: one sold from an inventory record,
\* one with a sourced line.
CartsUpdate ==
  { Body(<< Item("p1", 1) >>),
    Body(<< SourcedItem("p1", 2, Some(800), Some(1500)), Item("p2", 1) >>) }

StatusUpdates == {Undefined, Some("refunded"), Some("due")}

NextUpdate ==
  \/ \E body \in CartsUpdate : StartSession(1, body)
  \/ CreateSaleStep(1)
  \/ \E id \in 1..attempts : \E notes \in NotesInputs : \E status \in StatusUpdates :
       pc[1] \in {"idle", "done"} /\ UpdateSale(id, notes, status)
  \/ \E id \in 1..attempts : pc[1] \in {"idle", "done"} /\ DeleteSale(id)

\* The shop with a full shelf and a full inventory record of p1.
InitUpdate == Init /\ stock["p1"] = MaxStock /\ inv["p1"] = Some(MaxStock)

SpecUpdate == InitUpdate /\ [][NextUpdate]_vars

(* ------------------------- the legacy createSale ---------------------- *)

\* Requests sent to the legacy route.
CartsLegacy ==
  { Body(<< [Item("p5", 1) EXCEPT !.variantId = Some(0), !.discount = Some(100)] >>),
    Body(<< Item("p5", 2), Item("p1", 1) >>),
    Body(<< Item("p1", 2), Item("px", 1) >>),
    Body(<< Item("p1", 5) >>),
    Body(<< Item("p3", 1) >>),
    Body(<< Item("p2", 1) >>),
    Body(<< >>),
    [storeId |-> Undefined, items |-> Some(<< Item("p5", 1) >>)],
    [storeId |-> Some("s1"), items |-> Undefined] }

\* part_015 50-51: the variant's price, else the first variant's, else 0.
LegacyUnitPrice(item, product) ==
  LET variantPrice ==
        IF IsDefined(item.variantId) /\ (item.variantId[1] + 1) \in DOMAIN product.variants
          THEN product.variants[item.variantId[1] + 1].price ELSE 0
      firstPrice ==
        IF Len(product.variants) > 0 THEN product.variants[1].price ELSE 0
  IN IF variantPrice # 0 THEN variantPrice ELSE firstPrice

\* part_015 52: the tax is taken on the undiscounted amount, at product.taxRate
\* as it is: the product of a number and undefined is NaN.
LegacyIsNaN(product) == ~IsDefined(product.taxRate)

\* The tax of a line when it is a number (0 stands in the arithmetic for a NaN,
\* which loc.nan records).
LegacyItemTax(item, product) ==
  IF LegacyIsNaN(product) THEN 0
  ELSE (LegacyUnitPrice(item, product) * item.quantity * product.taxRate[1]) \div 100

LegacySaleItem(item, product) ==
  [productId |-> item.productId, variantId |-> item.variantId,
   productName |-> product.name, quantity |-> item.quantity,
   unitPrice |-> LegacyUnitPrice(item, product), discount |-> ItemDiscount(item),
   tax |-> LegacyItemTax(item, product),
   total |-> LegacyUnitPrice(item, product) * item.quantity - ItemDiscount(item)
               + LegacyItemTax(item, product),
   isSourced |-> FALSE, sourcingCost |-> 0]

\* part_015 35-45: the session and its transaction are started, and the loop over
\* items is entered: no field of the request is checked. `for (... of undefined)`
\* throws a TypeError; an empty list leaves the loop at once.
LegacyStartSession(p, body) ==
  /\ pc[p] \in {"idle", "done"}
  /\ attempts < MaxAttempts
  /\ attempts' = attempts + 1
  /\ pc' = [pc EXCEPT ![p] =
               IF ~IsDefined(body.items) THEN "abort"
               ELSE IF Len(body.items[1]) = 0 THEN "legacyCountSales"
               ELSE "legacyFindProduct"]
  /\ req' = [req EXCEPT ![p] = body]
  /\ loc' = [loc EXCEPT ![p] = [InitLoc EXCEPT !.aid = attempts + 1, !.handler = "legacy"]]
  /\ txn' = [txn EXCEPT ![p] = StartedTxn]
  /\ res' = [res EXCEPT ![p] = "none"]
  /\ err' = [err EXCEPT ![p] = IF ~IsDefined(body.items) THEN "items is not iterable" ELSE "none"]
  /\ hist' = [hist EXCEPT ![p] = [stock |-> stock, inv |-> inv, clean |-> TRUE]]
  /\ UNCHANGED <<stock, inv, sales, sourced, now, init0, updates, others>>

\* part_015 46-68: Product.findById, the price and the totals, up to the await of
\* Inventory.findOne.
LegacyFindProduct(p) ==
  /\ pc[p] = "legacyFindProduct"
  /\ LET i == loc[p].i + 1
         item == Items(p)[i]
     IN IF item.productId \notin Products
          THEN Throw(p, "Product not found") /\ loc' = [loc EXCEPT ![p].i = i]
          ELSE LET product == Catalog[item.productId]
               IN /\ loc' = [loc EXCEPT ![p] =
                       [@ EXCEPT
                          !.i = i,
                          !.productId = item.productId,
                          !.quantity = item.quantity,
                          !.saleItems = Append(@, LegacySaleItem(item, product)),
                          !.subtotal = @ + LegacyUnitPrice(item, product) * item.quantity,
                          !.tax = @ + LegacyItemTax(item, product),
                          !.nan = @ \/ LegacyIsNaN(product)]]
                  /\ pc' = [pc EXCEPT ![p] = "findInventory"]
                  /\ UNCHANGED err
  /\ UNCHANGED <<stock, inv, sales, sourced, now, attempts, req, txn, res, hist, init0, updates, others>>

\* Sale.js 31-50 and 3-19: what sale.save() validates before it writes: storeId
\* is required, and a NaN is no Number (tax, total, and the line's tax and total).
LegacySaleIsValid(p) == IsDefined(req[p].storeId) /\ ~loc[p].nan

\* part_015 85-96: the Sale document; the status is the schema's default.
LegacyNewSale(p, saleNo) ==
  [id |-> loc[p].aid, saleNo |-> saleNo, storeId |-> req[p].storeId[1],
   items |-> loc[p].saleItems, subtotal |-> loc[p].subtotal,
   discount |-> 0, tax |-> loc[p].tax,
   total |-> loc[p].subtotal + loc[p].tax,
   status |-> "completed", notes |-> << >>]

\* part_015 82-98: Sale.countDocuments(), Date.now(), the Sale document, and the
\* validation that sale.save() runs before it writes.
LegacyCountSales(p) ==
  /\ pc[p] = "legacyCountSales"
  /\ \E t \in now..MaxClock :
       /\ now' = t
       /\ IF LegacySaleIsValid(p)
            THEN /\ loc' = [loc EXCEPT ![p].sale =
                              Some(LegacyNewSale(p, SaleNo(t, Cardinality(sales))))]
                 /\ pc' = [pc EXCEPT ![p] = "saveSale"]
                 /\ UNCHANGED err
            ELSE /\ Throw(p, "Sale validation failed")
                 /\ UNCHANGED loc
  /\ UNCHANGED <<stock, inv, sales, sourced, attempts, req, txn, res, hist, init0, updates, others>>

\* part_015 99-101: the commit, and the response without reading the sale back.
LegacyCommit(p) ==
  /\ pc[p] = "legacyCommit"
  /\ \/ /\ CommitTransaction(p)
        /\ pc' = [pc EXCEPT ![p] = "done"]
        /\ res' = [res EXCEPT ![p] = "201"]
        /\ UNCHANGED err
     \/ /\ Throw(p, "commit failed")
        /\ txn' = [txn EXCEPT ![p] = ServerAborted(@)]
        /\ UNCHANGED <<stock, inv, sales, sourced, hist, res>>
  /\ UNCHANGED <<now, attempts, req, loc, init0, updates, others>>

NextLegacy ==
  \/ \E body \in CartsLegacy : LegacyStartSession(1, body)
  \/ LegacyFindProduct(1)
  \/ FindInventory(1)
  \/ SaveInventory(1)
  \/ LegacyCountSales(1)
  \/ SaveSale(1)
  \/ LegacyCommit(1)
  \/ Abort(1)
  \/ \E id \in 1..attempts : \E notes \in NotesInputs : \E status \in StatusInputs :
       pc[1] \in {"idle", "done"} /\ UpdateSale(id, notes, status)
  \/ \E id \in 1..attempts : pc[1] \in {"idle", "done"} /\ DeleteSale(id)

SpecLegacy == Init /\ [][NextLegacy]_vars

(* ------------------------------ properties ---------------------------- *)

SalesOf(S, aid) == {s \in S : s.id = aid}
SourcedOf(S, aid) == {d \in S : d.saleId = aid}

\* The errors of the per-line processing (lines 138-230).
LineErrors ==
  {"Product not found", "Product is not active", "Price not found",
   "Insufficient stock", "Insufficient inventory"}

AllEnded == \A p \in Procs : pc[p] = "done"

\* The step in which handler p's transaction commits.
Commits(p) == pc[p] = "commit" /\ pc'[p] = "populate"

\* Quantity of product prod on the non-sourced lines of a list of lines.
RECURSIVE NonSourcedQty(_, _)
NonSourcedQty(items, prod) ==
  IF items = << >> THEN 0
  ELSE (IF ~items[1].isSourced /\ items[1].productId = prod THEN items[1].quantity ELSE 0)
         + NonSourcedQty(Tail(items), prod)

\* Quantity of product prod on the non-sourced lines of a set of sales.
RECURSIVE SoldQty(_, _)
SoldQty(S, prod) ==
  IF S = {} THEN 0
  ELSE LET s == CHOOSE x \in S : TRUE
       IN NonSourcedQty(s.items, prod) + SoldQty(S \ {s}, prod)

\* C1: a create-sale attempt that fails on a cart line leaves no Sale and no
\* sourced-item record, and (no other sale having committed meanwhile) every
\* stock counter and inventory quantity as it was before the attempt.
C1_AtomicityOnFailure ==
  \A p \in Procs :
    (pc[p] = "done" /\ err[p] \in LineErrors) =>
      /\ SalesOf(sales, loc[p].aid) = {}
      /\ SourcedOf(sourced, loc[p].aid) = {}
      /\ hist[p].clean => (stock = hist[p].stock /\ inv = hist[p].inv)

\* An attempt has failed at line 2 after line 1 was decremented in the transaction.
C1_Witness ==
  \E p \in Procs :
    /\ pc[p] = "done" /\ err[p] \in {"Insufficient stock", "Insufficient inventory"}
    /\ loc[p].i = 2 /\ ~Items(p)[1].isSourced /\ hist[p].clean

\* C2: no product stock counter and no inventory quantity is ever negative.
C2_NonNegativity ==
  \A prod \in Products :
    /\ stock[prod] >= 0
    /\ IsDefined(inv[prod]) => inv[prod][1] >= 0

\* Two overlapping attempts have ended, one committed, one refused, a counter at 0.
C2_Witness ==
  /\ \E p, q \in Procs :
       /\ p # q /\ pc[p] = "done" /\ pc[q] = "done" /\ res[p] = "201"
       /\ err[q] \in {"Insufficient stock", "Insufficient inventory", "WriteConflict"}
       /\ ~hist[q].clean
  /\ \E prod \in Products : stock[prod] = 0 \/ inv[prod] = Some(0)

\* C3: once all attempts have ended, each product stock counter is its initial
\* value minus the committed non-sourced quantities, which do not exceed it.
C3_SerializedDecrements ==
  AllEnded =>
    \A prod \in Products :
      /\ stock[prod] = init0.stock[prod] - SoldQty(sales, prod)
      /\ SoldQty(sales, prod) <= init0.stock[prod]

\* C4: no two committed sales carry the same sale number.
C4_NumberingUniqueness ==
  \A s1, s2 \in sales : s1 # s2 => s1.saleNo # s2.saleNo

\* An attempt that generated the number of a committed sale has been refused.
C4_Witness ==
  \E p \in Procs :
    /\ err[p] = "E11000 duplicate key"
    /\ \E s \in sales : s.saleNo = loc[p].sale[1].saleNo /\ s.id # loc[p].aid

\* C5: nothing of an attempt is in the store before its commit, and the store
\* changes only in a commit step, which brings the attempt's Sale, its
\* sourced-item records, and every counter it wrote, together.
C5_StoreChanged ==
  stock' # stock \/ inv' # inv \/ sales' # sales \/ sourced' # sourced

C5_CommitsWhole(p) ==
  /\ Commits(p)
  /\ loc[p].sale[1] \in sales' \ sales
  /\ Cardinality(SourcedOf(sourced', loc[p].aid)) =
       Cardinality({k \in DOMAIN Items(p) : Items(p)[k].isSourced})
  /\ \A k \in DOMAIN Items(p) :
       ~Items(p)[k].isSourced =>
         /\ IsDefined(txn[p].wStock[Items(p)[k].productId])
         /\ IsDefined(inv[Items(p)[k].productId]) =>
              IsDefined(txn[p].wInv[Items(p)[k].productId])
  /\ \A prod \in Products :
       /\ stock'[prod] = IF IsDefined(txn[p].wStock[prod])
                           THEN txn[p].wStock[prod][1] ELSE stock[prod]
       /\ inv'[prod] = IF IsDefined(txn[p].wInv[prod])
                         THEN txn[p].wInv[prod] ELSE inv[prod]

C5_NothingBeforeCommit ==
  \A p \in Procs :
    pc[p] \notin {"idle", "populate", "done"} =>
      SalesOf(sales, loc[p].aid) = {} /\ SourcedOf(sourced, loc[p].aid) = {}

C5_AtomicVisibility ==
  /\ []C5_NothingBeforeCommit
  /\ [][C5_StoreChanged => \E p \in Procs : C5_CommitsWhole(p)]_vars

\* A sale with a sourced and a stocked line has committed while another is in flight.
C5_Witness ==
  \E p, q \in Procs :
    /\ p # q /\ pc[p] = "populate" /\ Len(loc[p].sourcedItemsToCreate) > 0
    /\ pc[q] \notin {"idle", "done"} /\ txn[q].state = "active"

\* C6: every committed Sale has total = subtotal - discount + tax, with
\* subtotal, discount and tax the sums over its line items, also after
\* updateSale and deleteSale.
C6_TotalInvariant ==
  \A s \in sales :
    /\ s.total = s.subtotal - s.discount + s.tax
    /\ s.subtotal = SumSeq([k \in DOMAIN s.items |-> s.items[k].unitPrice * s.items[k].quantity])
    /\ s.discount = SumSeq([k \in DOMAIN s.items |-> s.items[k].discount])
    /\ s.tax = SumSeq([k \in DOMAIN s.items |-> s.items[k].tax])

\* C7: the commit of a sale whose lines are all flagged sourced changes no stock
\* counter and no inventory quantity, and brings one sourced-item record per line,
\* with profit = (salePrice - sourcingCost) * quantity, salePrice the unit price.
C7_SourcedIsolation ==
  [][\A p \in Procs :
       (Commits(p) /\ \A k \in DOMAIN Items(p) : Items(p)[k].isSourced) =>
         /\ stock' = stock
         /\ inv' = inv
         /\ Cardinality(SourcedOf(sourced', loc[p].aid)) = Len(Items(p))
         /\ \A k \in DOMAIN Items(p) :
              \E d \in SourcedOf(sourced', loc[p].aid) :
                /\ d.n = k
                /\ d.doc.productId = Items(p)[k].productId
                /\ d.doc.salePrice = loc[p].sale[1].items[k].unitPrice
                /\ d.doc.profit =
                     (d.doc.salePrice - d.doc.sourcingCost) * Items(p)[k].quantity]_vars

\* An all-sourced sale of two lines has committed, one line for more units than
\* the product has, which has none.
C7_Witness ==
  \E p \in Procs :
    /\ pc[p] = "populate" /\ Len(Items(p)) = 2
    /\ \A k \in DOMAIN Items(p) : Items(p)[k].isSourced
    /\ stock["p2"] = 0 /\ Items(p)[2].productId = "p2"

\* C8: no step reduces the product counter of a product by another amount than
\* the store's inventory record of that product.
C8_BothOrNeither ==
  [][\A prod \in Products :
       (IsDefined(inv[prod]) /\ IsDefined(inv'[prod])) =>
         stock[prod] - stock'[prod] = inv[prod][1] - inv'[prod][1]]_vars

\* C9: an attempt that ended without reporting success has left no Sale, no
\* sourced-item record and no change of stock or inventory.
C9_NoSideEffectsOnFailure ==
  \A p \in Procs :
    (pc[p] = "done" /\ res[p] # "201") =>
      /\ SalesOf(sales, loc[p].aid) = {}
      /\ SourcedOf(sourced, loc[p].aid) = {}
      /\ hist[p].clean => (stock = hist[p].stock /\ inv = hist[p].inv)

\* C10: the commit of a cart with each product on at most one line, no other
\* writer running, takes each non-sourced line's quantity off the product counter
\* and off the inventory record if there is one, changes nothing else, and adds
\* one Sale whose line items are the cart lines in order.
C10_DistinctProducts(items) ==
  \A j, k \in DOMAIN items : j # k => items[j].productId # items[k].productId

C10_ExactDecrement ==
  [][\A p \in Procs :
       (Commits(p) /\ C10_DistinctProducts(Items(p))) =>
         /\ \A prod \in Products :
              /\ stock'[prod] = hist[p].stock[prod] - NonSourcedQty(Items(p), prod)
              /\ inv'[prod] =
                   IF IsDefined(hist[p].inv[prod])
                     THEN Some(hist[p].inv[prod][1] - NonSourcedQty(Items(p), prod))
                     ELSE Undefined
         /\ Cardinality(sales') = Cardinality(sales) + 1
         /\ \E s \in sales' \ sales :
              /\ s.id = loc[p].aid
              /\ Len(s.items) = Len(Items(p))
              /\ \A k \in DOMAIN Items(p) :
                   /\ s.items[k].productId = Items(p)[k].productId
                   /\ s.items[k].quantity = Items(p)[k].quantity]_vars

\* A cart of two stocked lines, one with an inventory record, has committed.
C10_Witness ==
  \E p \in Procs :
    /\ pc[p] = "populate" /\ Len(Items(p)) = 2
    /\ \A k \in DOMAIN Items(p) : ~Items(p)[k].isSourced
    /\ \E k \in DOMAIN Items(p) : IsDefined(inv[Items(p)[k].productId])
    /\ \E k \in DOMAIN Items(p) : ~IsDefined(inv[Items(p)[k].productId])

\* C11: a cart that lists one product on two or more non-sourced lines commits
\* only if the product's stock before the attempt covers the sum of their
\* quantities, and its commit takes that sum off the product counter, the same
\* amount it takes off the store's inventory record.
C11_RepeatedProduct(items, prod) ==
  \E j, k \in DOMAIN items :
    /\ j # k
    /\ items[j].productId = prod /\ items[k].productId = prod
    /\ ~items[j].isSourced /\ ~items[k].isSourced

C11_SameProductLines ==
  [][\A p \in Procs : \A prod \in Products :
       (Commits(p) /\ C11_RepeatedProduct(Items(p), prod)) =>
         /\ NonSourcedQty(Items(p), prod) <= hist[p].stock[prod]
         /\ stock'[prod] = hist[p].stock[prod] - NonSourcedQty(Items(p), prod)
         /\ IsDefined(inv[prod]) =>
              stock[prod] - stock'[prod] = inv[prod][1] - inv'[prod][1]]_vars

\* The errors of the validation of the request (lines 121-128).
ValidationErrors == {"Store ID is required", "At least one item is required"}

HasItems(p) == IsDefined(req[p].items)

\* C12: a create-sale request with a line of quantity zero or less ends with a
\* validation error, and leaves every product counter, every inventory quantity
\* and the sales as they were (no counter is increased).
C12_NonPositiveRejected ==
  \A p \in Procs :
    (/\ pc[p] = "done" /\ HasItems(p)
     /\ \E k \in DOMAIN Items(p) : Items(p)[k].quantity <= 0) =>
      /\ err[p] \in ValidationErrors
      /\ SalesOf(sales, loc[p].aid) = {}
      /\ hist[p].clean => (stock = hist[p].stock /\ inv = hist[p].inv)

\* The request names no store, or has no item list, or an empty one.
C13_LacksPrecondition(p) ==
  \/ ~IsDefined(req[p].storeId)
  \/ ~HasItems(p)
  \/ Len(Items(p)) = 0

\* C13: a create-sale request without a store, or without items, ends with a
\* validation error (the store's when both are missing), no product or inventory
\* having been read or written and no transaction having been opened, and leaves
\* stock, inventory and sales unchanged.
C13_PreconditionValidation ==
  \A p \in Procs :
    (pc[p] = "done" /\ C13_LacksPrecondition(p)) =>
      /\ err[p] = IF ~IsDefined(req[p].storeId)
                    THEN "Store ID is required" ELSE "At least one item is required"
      /\ loc[p].i = 0
      /\ txn[p].state = "none"
      /\ SalesOf(sales, loc[p].aid) = {}
      /\ hist[p].clean => (stock = hist[p].stock /\ inv = hist[p].inv)

\* The sale of handler p's current attempt, once committed.
CommittedSaleOf(p) ==
  IF pc[p] \in {"populate", "done"} THEN SalesOf(sales, loc[p].aid) ELSE {}

\* The resolution order as stated: the override of a sourced line, else the
\* price of the variant the selector resolves to, else the base price.
C14_ResolvedPrice(item, product) ==
  IF item.isSourced /\ IsDefined(item.price)
    THEN item.price[1]
    ELSE IF IsDefined(item.variantId) /\ (item.variantId[1] + 1) \in DOMAIN product.variants
      THEN product.variants[item.variantId[1] + 1].price
      ELSE product.price

\* C14: the unit price recorded for every line of a committed sale is the one
\* the stated resolution order gives, and a cart is refused for its price only
\* when that order gives no price.
C14_PriceResolutionOrder ==
  \A p \in Procs :
    /\ \A s \in CommittedSaleOf(p) : \A k \in DOMAIN s.items :
         s.items[k].unitPrice =
           C14_ResolvedPrice(Items(p)[k], Catalog[Items(p)[k].productId])
    /\ (pc[p] = "done" /\ err[p] = "Price not found") =>
         C14_ResolvedPrice(CurrentItem(p), Catalog[CurrentItem(p).productId]) = 0

\* C15: no line of a committed Sale has a unit price of zero (a cart with a line
\* that resolves to no price is refused as a whole).
C15_NoFreeLines ==
  \A s \in sales : \A k \in DOMAIN s.items : s.items[k].unitPrice # 0

\* The lines of handler p's cart whose product is deactivated.
C16_InactiveLines(p) ==
  {k \in DOMAIN Items(p) :
     Items(p)[k].productId \in Products /\ ~Catalog[Items(p)[k].productId].isActive}

\* C16: no committed Sale has a line of a deactivated product; an attempt whose
\* cart has such a line, sourced or not, ends without a Sale and with stock and
\* inventory unchanged, and with the inactive-product error when that line is
\* the one it stopped at.
C16_InactiveNeverSold ==
  /\ \A s \in sales : \A k \in DOMAIN s.items : Catalog[s.items[k].productId].isActive
  /\ \A p \in Procs :
       (pc[p] = "done" /\ HasItems(p) /\ C16_InactiveLines(p) # {}) =>
         /\ err[p] # "none"
         /\ loc[p].i \in C16_InactiveLines(p) => err[p] = "Product is not active"
         /\ SalesOf(sales, loc[p].aid) = {}
         /\ hist[p].clean => (stock = hist[p].stock /\ inv = hist[p].inv)

\* C17: on every line of every committed Sale, tax is (unitPrice * quantity -
\* discount) * taxRate / 100, taxRate the product's and 0 when it has none, and
\* total is unitPrice * quantity - discount + tax.
C17_LineTaxAndTotal ==
  \A s \in sales : \A k \in DOMAIN s.items :
    LET line == s.items[k]
        taxRate == OrElse(Catalog[line.productId].taxRate, 0)
    IN /\ line.tax * 100 = (line.unitPrice * line.quantity - line.discount) * taxRate
       /\ line.total = line.unitPrice * line.quantity - line.discount + line.tax

\* C18: an attempt whose sale number is that of a persisted sale fails: it goes
\* to its catch block and ends there (it draws no second number), 400 is sent,
\* no Sale and no sourced-item record of the attempt is persisted, nothing is
\* left staged, and the counters show the committed sales only.
C18_CollisionIsHardError ==
  \A p \in Procs :
    err[p] = "E11000 duplicate key" =>
      /\ pc[p] \in {"abort", "done"}
      /\ loc[p].sale[1] \notin sales
      /\ SalesOf(sales, loc[p].aid) = {}
      /\ SourcedOf(sourced, loc[p].aid) = {}
      /\ pc[p] = "done" =>
           /\ res[p] = "400"
           /\ Written(txn[p]) = {} /\ ~IsDefined(txn[p].wSale)
           /\ \A prod \in Products :
                /\ stock[prod] = init0.stock[prod] - SoldQty(sales, prod)
                /\ IsDefined(inv[prod]) =>
                     inv[prod][1] = init0.inv[prod][1] - SoldQty(sales, prod)

\* An attempt that had staged a decrement has ended on a collision with the
\* number of a committed sale.
C18_Witness ==
  \E p \in Procs :
    /\ pc[p] = "done" /\ err[p] = "E11000 duplicate key" /\ res[p] = "400"
    /\ loc[p].i >= 1 /\ ~Items(p)[1].isSourced
    /\ \E s \in sales : s.saleNo = loc[p].sale[1].saleNo
    /\ stock[Items(p)[1].productId] = init0.stock[Items(p)[1].productId]

\* C19: sourced-item records are staged only in a transaction that holds the
\* parent Sale, whose identifier they carry; every persisted sourced-item record
\* references a persisted Sale, and an attempt that ended without its Sale left
\* no sourced-item record.
C19_SourcedBackReference ==
  /\ \A d \in sourced : \E s \in sales : s.id = d.saleId
  /\ \A p \in Procs :
       /\ Len(txn[p].wSourced) > 0 =>
            /\ IsDefined(txn[p].wSale)
            /\ \A k \in DOMAIN txn[p].wSourced :
                 txn[p].wSourced[k].saleId = txn[p].wSale[1].id
       /\ (pc[p] = "done" /\ SalesOf(sales, loc[p].aid) = {}) =>
            SourcedOf(sourced, loc[p].aid) = {}

\* One attempt with a sourced line has failed at its commit, its records staged,
\* and another's sourced-item records are persisted.
C19_Witness ==
  \E p, q \in Procs :
    /\ p # q
    /\ pc[p] = "done" /\ err[p] = "commit failed" /\ Len(loc[p].sourcedItemsToCreate) > 0
    /\ SourcedOf(sourced, loc[q].aid) # {}

\* The transitions of the status of a Sale.
C20_Transitions ==
  { <<"completed", "refunded">>, <<"completed", "partially_refunded">>,
    <<"due", "completed">>, <<"due", "refunded">> }

\* C20: a Sale is created with status completed, and no step changes the status
\* of a Sale otherwise than along completed -> refunded, completed ->
\* partially_refunded, due -> completed, due -> refunded.
C20_StatusStateMachine ==
  [][/\ \A s \in sales' :
          (\A old \in sales : old.id # s.id) => s.status = "completed"
     /\ \A old \in sales : \A s \in sales' :
          (old.id = s.id /\ old.status # s.status) =>
            <<old.status, s.status>> \in C20_Transitions]_vars

\* C21: no step removes a Sale or changes its number, store, line items,
\* subtotal, discount, tax or total, and updateSale and deleteSale change no
\* product counter and no inventory quantity, and add no Sale.
C21_SameButStatusAndNotes(old, s) ==
  /\ s.id = old.id /\ s.saleNo = old.saleNo /\ s.storeId = old.storeId
  /\ s.items = old.items /\ s.subtotal = old.subtotal /\ s.discount = old.discount
  /\ s.tax = old.tax /\ s.total = old.total

C21_SalesImmutable ==
  [][/\ \A old \in sales : \E s \in sales' : C21_SameButStatusAndNotes(old, s)
     /\ updates' # updates =>
          /\ stock' = stock /\ inv' = inv /\ sourced' = sourced
          /\ Cardinality(sales') = Cardinality(sales)]_vars

\* A sale that took units off an inventory record has been updated and then
\* cancelled, and the units have not come back.
C21_Witness ==
  /\ updates >= 2
  /\ \E s \in sales :
       /\ s.status = "refunded" /\ Len(s.notes) = 2 /\ s.notes[2] = "[CANCELLED]"
       /\ \E k \in DOMAIN s.items :
            /\ IsDefined(inv[s.items[k].productId])
            /\ inv[s.items[k].productId][1] < init0.inv[s.items[k].productId][1]

(* ------------------------- a request sent twice ----------------------- *)

NextRetry ==
  \/ \E body \in CartsRetry : StartSession(1, body)
  \/ CreateSaleStep(1)

SpecRetry == Init /\ [][NextRetry]_vars

\* The products, quantities and sourcing flags of a list of lines.
C22_Lines(items) ==
  [k \in DOMAIN items |-> <<items[k].productId, items[k].quantity, items[k].isSourced>>]

\* The request being served repeats the cart of the sale committed just before
\* it, and the stock before the two covered both.
C22_Retried(p) ==
  /\ loc[p].aid > 1
  /\ \E s \in SalesOf(sales, loc[p].aid - 1) : C22_Lines(s.items) = C22_Lines(Items(p))
  /\ \A prod \in Products :
       /\ init0.stock[prod] >= 2 * NonSourcedQty(Items(p), prod)
       /\ IsDefined(init0.inv[prod]) =>
            init0.inv[prod][1] >= 2 * NonSourcedQty(Items(p), prod)

\* C22: the same cart submitted twice in succession, with enough stock for both:
\* the second submission is not refused on a cart line or as a duplicate, and
\* when it has committed there are two sales with different numbers and the
\* stock is reduced by twice the quantities of the cart.
C22_NoIdempotency ==
  \A p \in Procs :
    (pc[p] = "done" /\ IsDefined(req[p].items) /\ C22_Retried(p)) =>
      /\ err[p] \notin LineErrors \cup {"E11000 duplicate key"}
      /\ res[p] = "201" =>
           /\ \E s1 \in SalesOf(sales, loc[p].aid - 1) : \E s2 \in SalesOf(sales, loc[p].aid) :
                s1.saleNo # s2.saleNo /\ C22_Lines(s1.items) = C22_Lines(s2.items)
           /\ \A prod \in Products :
                stock[prod] = init0.stock[prod] - 2 * NonSourcedQty(Items(p), prod)

(* --------------------- createSale runs to its end --------------------- *)

\* Two sales that meet on p1, and one refused for its stock.
CartsClose ==
  CartsUpdate \cup { Body(<< Item("p2", 3) >>) }

NextClose ==
  \/ \E p \in Procs : \E body \in CartsClose : pc[p] = "idle" /\ StartSession(p, body)
  \/ \E p \in Procs : CreateSaleStep(p)

\* Every await of the handler settles: the driver resolves or rejects each
\* operation, so a handler that can take its next step takes it.
SpecClose ==
  InitUpdate /\ [][NextClose]_vars /\ \A p \in Procs : WF_vars(CreateSaleStep(p))

C24_Closed(p) == txn[p].state \in {"committed", "aborted"}

\* C24: every create-sale attempt ends, with its transaction committed or
\* aborted and its session ended whatever step failed, and 201 is sent only
\* once the commit has completed.
C24_UnitOfWorkClosed ==
  /\ [](\A p \in Procs : pc[p] = "done" => C24_Closed(p))
  /\ [](\A p \in Procs : res[p] = "201" =>
          txn[p].state = "committed" /\ SalesOf(sales, loc[p].aid) # {})
  /\ \A p \in Procs : (pc[p] \notin {"idle", "done"}) ~> (pc[p] = "done")

C24_Witness ==
  \E p, q \in Procs :
    /\ pc[p] = "done" /\ err[p] = "commit failed" /\ res[p] = "400"
    /\ txn[p].state = "aborted"
    /\ pc[q] = "done" /\ err[q] = "populate failed" /\ res[q] = "none"
    /\ txn[q].state = "committed"

(* --------------------------- the error message ------------------------ *)

\* Lines 211-213 and 223: what the message of an insufficiency error states:
\* the product's name, and the available and the required quantity where the
\* template has them.
ErrorMessage(p) ==
  IF err[p] = "Insufficient stock"
    THEN [product |-> Some(Catalog[loc[p].productId].name),
          available |-> Some(loc[p].productStock), required |-> Some(loc[p].quantity)]
  ELSE IF err[p] = "Insufficient inventory"
    THEN [product |-> Some(Catalog[loc[p].productId].name),
          available |-> Undefined, required |-> Undefined]
  ELSE [product |-> Undefined, available |-> Undefined, required |-> Undefined]

\* C25: an attempt refused because the quantity asked exceeds the product
\* counter or the store's inventory record answers with an error that names the
\* product and states the available and the required quantity.
C25_ShortfallReported ==
  \A p \in Procs :
    (pc[p] = "done" /\ err[p] \in {"Insufficient stock", "Insufficient inventory"}) =>
      LET item == CurrentItem(p)
          m == ErrorMessage(p)
      IN /\ res[p] = "400"
         /\ m.product = Some(Catalog[item.productId].name)
         /\ m.required = Some(item.quantity)
         /\ m.available =
              Some(IF err[p] = "Insufficient stock" THEN stock[item.productId]
                   ELSE inv[item.productId][1])

(* ---------------------------- error precedence ------------------------ *)

\* The first line of a cart, from line k on, that breaks a rule, and the first
\* rule it breaks, with st and iv the product counters and the inventory
\* quantities left by the lines before it.
RECURSIVE C26_FirstError(_, _, _, _)
C26_FirstError(items, k, st, iv) ==
  IF k > Len(items) THEN [line |-> 0, error |-> "none"]
  ELSE LET item == items[k]
           prod == item.productId
       IN IF prod \notin Products THEN [line |-> k, error |-> "Product not found"]
          ELSE IF ~Catalog[prod].isActive THEN [line |-> k, error |-> "Product is not active"]
          ELSE IF UnitPrice(item, Catalog[prod]) = 0 THEN [line |-> k, error |-> "Price not found"]
          ELSE IF item.isSourced THEN C26_FirstError(items, k + 1, st, iv)
          ELSE IF st[prod] < item.quantity THEN [line |-> k, error |-> "Insufficient stock"]
          ELSE IF IsDefined(iv[prod]) /\ iv[prod][1] < item.quantity
            THEN [line |-> k, error |-> "Insufficient inventory"]
          ELSE C26_FirstError(items, k + 1,
                              [st EXCEPT ![prod] = @ - item.quantity],
                              [iv EXCEPT ![prod] =
                                 IF IsDefined(@) THEN Some(@[1] - item.quantity) ELSE @])

\* C26: an attempt refused on a cart line reports the first rule broken by the
\* first line that breaks one, in the order not found, inactive, no price,
\* product stock, store inventory, and has read no line after that one.
C26_ErrorPrecedence ==
  \A p \in Procs :
    (pc[p] = "done" /\ err[p] \in LineErrors /\ hist[p].clean) =>
      LET e == C26_FirstError(Items(p), 1, hist[p].stock, hist[p].inv)
      IN /\ err[p] = e.error
         /\ loc[p].i = e.line
         /\ res[p] = "400"

(* ------------------- inventoryController: the handlers ---------------- *)

\* Math.max(0, x)
Max0(x) == IF x < 0 THEN 0 ELSE x

\* What adjustInventory, batchAdjustInventory and transferInventory never touch.
notInventory == <<inv, sales, sourced, now, attempts, txn, init0, updates, tokens, user>>

\* Inventory.findOne({ productId, storeId }): the first matching document, if any.
FindOne(storeId) == IF ledger[storeId] = << >> THEN Undefined ELSE Some(ledger[storeId][1])

\* The quantity the store holds according to findOne.
Quantity(l, storeId) == IF l[storeId] = << >> THEN 0 ELSE l[storeId][1]

\* inventory.save(): an insert of a new document, or $set quantity on the one loaded.
SaveQuantity(storeId, isNew, quantity) ==
  IF isNew THEN [ledger EXCEPT ![storeId] = Append(@, quantity)]
  ELSE [ledger EXCEPT ![storeId][1] = quantity]

Adjust(storeId, adjustment) == [op |-> "adjust", storeId |-> storeId, adjustment |-> adjustment]
BatchLine(storeId, adjustment) == [storeId |-> storeId, adjustment |-> adjustment]
Batch(adjustments) == [op |-> "batch", adjustments |-> adjustments]
Transfer(fromStoreId, toStoreId, quantity) ==
  [op |-> "transfer", fromStoreId |-> fromStoreId, toStoreId |-> toStoreId, quantity |-> quantity]

\* The request bodies, all for product p1.
InventoryRequests ==
  { Adjust("s1", 1), Adjust("s1", -2), Adjust("s2", 1),
    Batch(<< BatchLine("s1", 1) >>), Batch(<< BatchLine("s2", 1), BatchLine("s1", -2) >>),
    Transfer("s1", "s2", 1), Transfer("s1", "s2", 2), Transfer("s2", "s1", 1),
    Transfer("s1", "s2", 0) }

\* The locals of a handler; delta and stockDelta record what its saves applied,
\* clamped whether a Math.max(0, ...) cut a value.
InventoryLoc ==
  [i |-> 0, quantity |-> 0, isNew |-> FALSE, productStock |-> 0, clamped |-> FALSE,
   delta |-> [s \in Stores |-> 0], stockDelta |-> 0]

\* The shop as the inventory handlers find it: the counter of p1 and the
\* Inventory documents of p1 in the two stores.
InitInventory ==
  /\ stock \in { [p \in Products |-> IF p = "p1" THEN a ELSE 1] : a \in (MaxStock - 1)..MaxStock }
  /\ ledger \in { [s \in Stores |-> IF s = "s1" THEN a ELSE b] :
                    a \in {<< >>, << 1 >>, << 2 >>}, b \in {<< >>, << 1 >>} }
  /\ inv = [p \in Products |-> Undefined]
  /\ sales = {}
  /\ sourced = {}
  /\ now = 0
  /\ attempts = 0
  /\ pc = [p \in Procs |-> "idle"]
  /\ req = [p \in Procs |-> Batch(<< >>)]
  /\ loc = [p \in Procs |-> InventoryLoc]
  /\ txn = [p \in Procs |-> NoTxn]
  /\ res = [p \in Procs |-> "none"]
  /\ err = [p \in Procs |-> "none"]
  /\ hist = [p \in Procs |-> [stock |-> stock, ledger |-> ledger]]
  /\ init0 = [stock |-> stock, inv |-> inv, ledger |-> ledger]
  /\ updates = 0
  /\ tokens = {}
  /\ user = NewUser

\* The end of a handler: the response is sent.
Send(p, status, message) ==
  /\ pc' = [pc EXCEPT ![p] = "done"]
  /\ res' = [res EXCEPT ![p] = status]
  /\ err' = [err EXCEPT ![p] = message]

\* A request arrives; lines 158-162, 217-219 and 260-264: the validation.
InventoryRequest(p, body) ==
  /\ pc[p] = "idle"
  /\ req' = [req EXCEPT ![p] = body]
  /\ loc' = [loc EXCEPT ![p] = InventoryLoc]
  /\ hist' = [hist EXCEPT ![p] = [stock |-> stock, ledger |-> ledger]]
  /\ IF body.op = "transfer" /\ body.quantity <= 0
       THEN Send(p, "400", "valid quantity required")
       ELSE /\ pc' = [pc EXCEPT ![p] =
                        IF body.op = "adjust" THEN "adjustFindOne"
                        ELSE IF body.op = "batch"
                          THEN (IF body.adjustments = << >> THEN "batchRespond" ELSE "batchFindOne")
                        ELSE "transferFindFrom"]
            /\ UNCHANGED <<res, err>>
  /\ UNCHANGED <<stock, ledger, notInventory>>

\* Lines 165-186: findOne, then the new document or the new quantity of the
\* loaded one.
AdjustFindOne(p) ==
  /\ pc[p] = "adjustFindOne"
  /\ LET inventory == FindOne(req[p].storeId)
         sum == (IF IsDefined(inventory) THEN inventory[1] ELSE 0) + req[p].adjustment
     IN loc' = [loc EXCEPT ![p].isNew = ~IsDefined(inventory),
                           ![p].quantity = Max0(sum),
                           ![p].clamped = sum < 0]
  /\ pc' = [pc EXCEPT ![p] = "adjustSave"]
  /\ UNCHANGED <<stock, ledger, req, res, err, hist, notInventory>>

\* Line 187: inventory.save().
AdjustSave(p) ==
  /\ pc[p] = "adjustSave"
  /\ ledger' = SaveQuantity(req[p].storeId, loc[p].isNew, loc[p].quantity)
  /\ loc' = [loc EXCEPT ![p].delta[req[p].storeId] = @ + req[p].adjustment]
  /\ pc' = [pc EXCEPT ![p] = "adjustFindProduct"]
  /\ UNCHANGED <<stock, req, res, err, hist, notInventory>>

\* Lines 190-192: Product.findById and the new value of its counter.
AdjustFindProduct(p) ==
  /\ pc[p] = "adjustFindProduct"
  /\ LET sum == stock["p1"] + req[p].adjustment
     IN loc' = [loc EXCEPT ![p].productStock = Max0(sum),
                           ![p].clamped = @ \/ sum < 0]
  /\ pc' = [pc EXCEPT ![p] = "adjustSaveProduct"]
  /\ UNCHANGED <<stock, ledger, req, res, err, hist, notInventory>>

\* Lines 193-204: product.save() and the response.
AdjustSaveProduct(p) ==
  /\ pc[p] = "adjustSaveProduct"
  /\ stock' = [stock EXCEPT !["p1"] = loc[p].productStock]
  /\ loc' = [loc EXCEPT ![p].stockDelta = @ + req[p].adjustment]
  /\ Send(p, "200", "none")
  /\ UNCHANGED <<ledger, req, hist, notInventory>>

adjustInventory(p) ==
  \/ AdjustFindOne(p)
  \/ AdjustSave(p)
  \/ AdjustFindProduct(p)
  \/ AdjustSaveProduct(p)

\* The loop of lines 224-241 after an adjustment: the next one, or the response.
AfterAdjustment(p) ==
  IF loc[p].i < Len(req[p].adjustments) THEN "batchFindOne" ELSE "batchRespond"

\* Lines 225-236: findOne for the next adjustment; without a document the
\* adjustment is reported as an error and the loop goes on.
BatchFindOne(p) ==
  /\ pc[p] = "batchFindOne"
  /\ LET i == loc[p].i + 1
         adj == req[p].adjustments[i]
         inventory == FindOne(adj.storeId)
     IN IF IsDefined(inventory)
          THEN /\ loc' = [loc EXCEPT ![p].i = i,
                                     ![p].quantity = Max0(inventory[1] + adj.adjustment),
                                     ![p].clamped = @ \/ inventory[1] + adj.adjustment < 0]
               /\ pc' = [pc EXCEPT ![p] = "batchSave"]
          ELSE /\ loc' = [loc EXCEPT ![p].i = i]
               /\ pc' = [pc EXCEPT ![p] =
                           IF i < Len(req[p].adjustments) THEN "batchFindOne" ELSE "batchRespond"]
  /\ UNCHANGED <<stock, ledger, req, res, err, hist, notInventory>>

\* Line 232: inventory.save().
BatchSave(p) ==
  /\ pc[p] = "batchSave"
  /\ LET adj == req[p].adjustments[loc[p].i]
     IN /\ ledger' = SaveQuantity(adj.storeId, FALSE, loc[p].quantity)
        /\ loc' = [loc EXCEPT ![p].delta[adj.storeId] = @ + adj.adjustment]
  /\ pc' = [pc EXCEPT ![p] = AfterAdjustment(p)]
  /\ UNCHANGED <<stock, req, res, err, hist, notInventory>>

\* Lines 242-246: the response.
BatchRespond(p) ==
  /\ pc[p] = "batchRespond"
  /\ Send(p, "200", "none")
  /\ UNCHANGED <<stock, ledger, req, loc, hist, notInventory>>

batchAdjustInventory(p) ==
  \/ BatchFindOne(p)
  \/ BatchSave(p)
  \/ BatchRespond(p)

\* Lines 267-277: the source document and the two refusals.
TransferFindFrom(p) ==
  /\ pc[p] = "transferFindFrom"
  /\ LET fromInventory == FindOne(req[p].fromStoreId)
     IN IF ~IsDefined(fromInventory)
          THEN Send(p, "404", "Source inventory not found") /\ UNCHANGED loc
        ELSE IF fromInventory[1] < req[p].quantity
          THEN Send(p, "400", "Insufficient quantity") /\ UNCHANGED loc
        ELSE /\ loc' = [loc EXCEPT ![p].quantity = fromInventory[1] - req[p].quantity]
             /\ pc' = [pc EXCEPT ![p] = "transferSaveFrom"]
             /\ UNCHANGED <<res, err>>
  /\ UNCHANGED <<stock, ledger, req, hist, notInventory>>

\* Lines 279-280: fromInventory.save().
TransferSaveFrom(p) ==
  /\ pc[p] = "transferSaveFrom"
  /\ ledger' = SaveQuantity(req[p].fromStoreId, FALSE, loc[p].quantity)
  /\ loc' = [loc EXCEPT ![p].delta[req[p].fromStoreId] = @ - req[p].quantity]
  /\ pc' = [pc EXCEPT ![p] = "transferFindTo"]
  /\ UNCHANGED <<stock, req, res, err, hist, notInventory>>

\* Lines 283-296: the destination document, loaded or new; when the read
\* fails the catch block (lines 305-307) answers 500.
TransferFindTo(p) ==
  /\ pc[p] = "transferFindTo"
  /\ \/ LET toInventory == FindOne(req[p].toStoreId)
        IN /\ loc' = [loc EXCEPT ![p].isNew = ~IsDefined(toInventory),
                                 ![p].quantity =
                                    IF IsDefined(toInventory)
                                      THEN toInventory[1] + req[p].quantity
                                      ELSE req[p].quantity]
           /\ pc' = [pc EXCEPT ![p] = "transferSaveTo"]
           /\ UNCHANGED <<res, err>>
     \/ Send(p, "500", "findOne failed") /\ UNCHANGED loc
  /\ UNCHANGED <<stock, ledger, req, hist, notInventory>>

\* Lines 297-304: toInventory.save() and the response.
TransferSaveTo(p) ==
  /\ pc[p] = "transferSaveTo"
  /\ ledger' = SaveQuantity(req[p].toStoreId, loc[p].isNew, loc[p].quantity)
  /\ loc' = [loc EXCEPT ![p].delta[req[p].toStoreId] = @ + req[p].quantity]
  /\ Send(p, "200", "none")
  /\ UNCHANGED <<stock, req, hist, notInventory>>

transferInventory(p) ==
  \/ TransferFindFrom(p)
  \/ TransferSaveFrom(p)
  \/ TransferFindTo(p)
  \/ TransferSaveTo(p)

NextInventory ==
  \/ \E p \in Procs : \E body \in InventoryRequests : InventoryRequest(p, body)
  \/ \E p \in Procs : adjustInventory(p)
  \/ \E p \in Procs : batchAdjustInventory(p)
  \/ \E p \in Procs : transferInventory(p)

SpecInventory == InitInventory /\ [][NextInventory]_vars

(* ---------------------- inventoryController: properties --------------- *)

InventoryEnded == \A p \in Procs : pc[p] \in {"idle", "done"}

\* What the handlers' saves applied to a store, and to the product counter.
C23_Applied(storeId) == SumSeq([p \in 1..Cardinality(Procs) |-> loc[p].delta[storeId]])
C23_AppliedToStock == SumSeq([p \in 1..Cardinality(Procs) |-> loc[p].stockDelta])

\* C23: adjustments and transfers running together lose no update: when they
\* have ended with success, and no value was cut at zero, each store's inventory quantity and
\* the product counter are the initial value plus every adjustment applied,
\* minus what committed sales took.
C23_NoLostUpdates ==
  (/\ InventoryEnded
   /\ \A p \in Procs : ~loc[p].clamped /\ (pc[p] = "done" => res[p] = "200")) =>
    /\ \A s \in Stores :
         /\ Len(ledger[s]) <= 1
         /\ Quantity(ledger, s) = Quantity(init0.ledger, s) + C23_Applied(s)
    /\ stock["p1"] = init0.stock["p1"] + C23_AppliedToStock - SoldQty(sales, "p1")

\* The handlers that have answered all served transfers.
C27_OnlyTransfers == \A p \in Procs : pc[p] = "done" => req[p].op = "transfer"

C27_Total(l) == SumSeq([k \in 1..2 |-> SumSeq(l[IF k = 1 THEN "s1" ELSE "s2"])])

\* C27: when the transfers of a product have ended, also one that failed
\* between its two saves, the product's inventory quantities add up to what
\* they did before, none is negative, and if every transfer was refused nothing
\* has changed.
C27_TransferConserves ==
  (InventoryEnded /\ C27_OnlyTransfers) =>
    /\ C27_Total(ledger) = C27_Total(init0.ledger)
    /\ \A s \in Stores : \A k \in DOMAIN ledger[s] : ledger[s][k] >= 0
    /\ (\A p \in Procs : pc[p] = "done" => res[p] \in {"400", "404"}) => ledger = init0.ledger

\* C28: a successful adjustInventory or batchAdjustInventory call, no other
\* handler running, changes the product counter by as much as it changes the
\* inventory quantities, so their difference is what it was before the call.
C28_LedgersInStep ==
  \A p \in Procs :
    (/\ pc[p] = "done" /\ res[p] = "200" /\ req[p].op \in {"adjust", "batch"}
     /\ \A q \in Procs \ {p} : pc[q] = "idle") =>
      stock["p1"] - hist[p].stock["p1"] =
        SumSeq([k \in 1..2 |->
                  LET s == IF k = 1 THEN "s1" ELSE "s2"
                  IN Quantity(ledger, s) - Quantity(hist[p].ledger, s)])

(* ----------------------- POST /refresh: the handler ------------------- *)

\* userSchema isLocked (Sale.js 199-201): lockUntil is set and in the future.
IsLocked(u, time) == IsDefined(u.lockUntil) /\ u.lockUntil[1] > time

\* generateTokens: jwt.sign({ userId }, secret, { expiresIn }) has no other
\* input than the user and the second of issue, which fix the string.
GenerateRefreshToken(userId, time) == <<"jwt", userId, time>>

\* hashToken: the SHA-256 digest of the string.
HashToken(token) == <<"sha256", token>>

\* The seconds in which a refresh token of the user may have been signed.
Seconds == 0..MaxSeconds

\* What the refresh route never touches.
notRefresh == <<stock, inv, sales, sourced, txn, init0, updates, ledger, user>>

RefreshLoc == [storedToken |-> Undefined, newRefreshToken |-> Undefined]

\* After a login in second 0: its refresh token is stored; hist counts, for
\* each token, the refresh requests that presented it and succeeded.
InitRefresh ==
  /\ tokens = { [token |-> HashToken(GenerateRefreshToken("u1", 0)), isRevoked |-> FALSE] }
  /\ now = 0
  /\ user = NewUser
  /\ stock = [p \in Products |-> 1]
  /\ inv = [p \in Products |-> Undefined]
  /\ sales = {}
  /\ sourced = {}
  /\ attempts = 0
  /\ pc = [p \in Procs |-> "idle"]
  /\ req = [p \in Procs |-> [refreshToken |-> GenerateRefreshToken("u1", 0)]]
  /\ loc = [p \in Procs |-> RefreshLoc]
  /\ txn = [p \in Procs |-> NoTxn]
  /\ res = [p \in Procs |-> "none"]
  /\ err = [p \in Procs |-> "none"]
  /\ hist = [t \in Seconds |-> 0]
  /\ init0 = [stock |-> stock, inv |-> inv, ledger |-> [s \in Stores |-> << >>]]
  /\ updates = 0
  /\ ledger = [s \in Stores |-> << >>]

\* Time passes.
Tick ==
  /\ now < MaxSeconds
  /\ now' = now + 1
  /\ UNCHANGED <<tokens, attempts, pc, req, loc, res, err, hist, notRefresh>>

\* Lines 403-420: a request presenting a token signed for the user in second
\* time; jwt.verify accepts it.
RefreshRequest(p, time) ==
  /\ pc[p] \in {"idle", "done"}
  /\ attempts < MaxAttempts
  /\ attempts' = attempts + 1
  /\ req' = [req EXCEPT ![p] = [refreshToken |-> GenerateRefreshToken("u1", time)]]
  /\ loc' = [loc EXCEPT ![p] = RefreshLoc]
  /\ res' = [res EXCEPT ![p] = "none"]
  /\ err' = [err EXCEPT ![p] = "none"]
  /\ pc' = [pc EXCEPT ![p] = "refreshFindOne"]
  /\ UNCHANGED <<tokens, now, hist, notRefresh>>

\* Lines 423-428: RefreshToken.findOne({ token, userId, isRevoked: false }).
RefreshFindOne(p) ==
  /\ pc[p] = "refreshFindOne"
  /\ LET tokenHash == HashToken(req[p].refreshToken)
     IN IF [token |-> tokenHash, isRevoked |-> FALSE] \in tokens
          THEN /\ loc' = [loc EXCEPT ![p].storedToken = Some(tokenHash)]
               /\ pc' = [pc EXCEPT ![p] = "refreshFindUser"]
          ELSE /\ pc' = [pc EXCEPT ![p] = "refreshRevokeAll"]
               /\ UNCHANGED loc
  /\ UNCHANGED <<tokens, now, attempts, req, res, err, hist, notRefresh>>

\* Lines 430-447: no such token: every token of the user is revoked, 401.
RefreshRevokeAll(p) ==
  /\ pc[p] = "refreshRevokeAll"
  /\ tokens' = { [d EXCEPT !.isRevoked = TRUE] : d \in tokens }
  /\ Send(p, "401", "Token reuse detected")
  /\ UNCHANGED <<now, attempts, req, loc, hist, notRefresh>>

\* Lines 459-478: the user is loaded and checked, the new tokens are signed.
RefreshFindUser(p) ==
  /\ pc[p] = "refreshFindUser"
  /\ IF IsLocked(user, now)
       THEN Send(p, "423", "Account is locked") /\ UNCHANGED loc
       ELSE /\ loc' = [loc EXCEPT ![p].newRefreshToken = Some(GenerateRefreshToken("u1", now))]
            /\ pc' = [pc EXCEPT ![p] = "refreshRevoke"]
            /\ UNCHANGED <<res, err>>
  /\ UNCHANGED <<tokens, now, attempts, req, hist, notRefresh>>

\* Lines 481-483: storedToken.isRevoked = true; storedToken.save().
RefreshRevoke(p) ==
  /\ pc[p] = "refreshRevoke"
  /\ tokens' = { IF d.token = loc[p].storedToken[1] THEN [d EXCEPT !.isRevoked = TRUE] ELSE d :
                 d \in tokens }
  /\ pc' = [pc EXCEPT ![p] = "refreshCreate"]
  /\ UNCHANGED <<now, attempts, req, loc, res, err, hist, notRefresh>>

\* Lines 486-517: RefreshToken.create of the new token and the answer; the
\* unique index on token rejects a hash that is stored already, and the catch
\* block answers 401.
RefreshCreate(p) ==
  /\ pc[p] = "refreshCreate"
  /\ LET newTokenHash == HashToken(loc[p].newRefreshToken[1])
     IN IF \E d \in tokens : d.token = newTokenHash
          THEN /\ Send(p, "401", "Failed to refresh token")
               /\ UNCHANGED <<tokens, hist>>
          ELSE /\ tokens' = tokens \cup { [token |-> newTokenHash, isRevoked |-> FALSE] }
               /\ hist' = [hist EXCEPT ![req[p].refreshToken[3]] = @ + 1]
               /\ Send(p, "200", "none")
  /\ UNCHANGED <<now, attempts, req, loc, notRefresh>>

NextRefresh ==
  \/ Tick
  \/ \E p \in Procs : \E time \in Seconds : RefreshRequest(p, time)
  \/ \E p \in Procs : RefreshFindOne(p)
  \/ \E p \in Procs : RefreshRevokeAll(p)
  \/ \E p \in Procs : RefreshFindUser(p)
  \/ \E p \in Procs : RefreshRevoke(p)
  \/ \E p \in Procs : RefreshCreate(p)

SpecRefresh == InitRefresh /\ [][NextRefresh]_vars

\* Handler p answers in this step.
C29_Answers(p, status) == pc[p] # "done" /\ pc'[p] = "done" /\ res'[p] = status

\* C29: for every refresh token at most one request presenting it succeeds; a
\* successful refresh leaves the presented token revoked and stores exactly one
\* new token; a request presenting a revoked or unknown token is refused and
\* leaves every refresh token of the user revoked.
C29_SingleUse ==
  [][/\ \A t \in Seconds : hist'[t] <= 1
     /\ \A p \in Procs :
          C29_Answers(p, "200") =>
            /\ [token |-> HashToken(req[p].refreshToken), isRevoked |-> TRUE] \in tokens'
            /\ Cardinality(tokens') = Cardinality(tokens) + 1
     /\ \A p \in Procs :
          (pc[p] = "refreshRevokeAll" /\ pc'[p] # pc[p]) =>
            /\ res'[p] = "401"
            /\ \A d \in tokens' : d.isRevoked]_vars

(* ------------------------ POST /login: the handler -------------------- *)

\* Sale.js 226-227: maxAttempts, and lockTime (two hours) in units of the clock.
MaxLoginAttempts == 5
LockTime == 2

\* What the login route never touches.
notLogin == <<stock, inv, sales, sourced, txn, init0, updates, ledger, hist>>

\* The account after some failed attempts, not locked, and no session yet.
InitLogin ==
  /\ user \in { [NewUser EXCEPT !.loginAttempts = n] :
                  n \in {0, MaxLoginAttempts - 2, MaxLoginAttempts - 1} }
  /\ tokens = {}
  /\ now = 0
  /\ stock = [p \in Products |-> 1]
  /\ inv = [p \in Products |-> Undefined]
  /\ sales = {}
  /\ sourced = {}
  /\ attempts = 0
  /\ pc = [p \in Procs |-> "idle"]
  /\ req = [p \in Procs |-> [passwordMatches |-> FALSE]]
  /\ loc = [p \in Procs |-> [user |-> NewUser]]
  /\ txn = [p \in Procs |-> NoTxn]
  /\ res = [p \in Procs |-> "none"]
  /\ err = [p \in Procs |-> "none"]
  /\ hist = [t \in Seconds |-> 0]
  /\ init0 = [stock |-> stock, inv |-> inv, ledger |-> [s \in Stores |-> << >>]]
  /\ updates = 0
  /\ ledger = [s \in Stores |-> << >>]

LoginTick ==
  /\ now < MaxSeconds
  /\ now' = now + 1
  /\ UNCHANGED <<user, tokens, attempts, pc, req, loc, res, err, notLogin>>

\* Lines 240-255: a login request for the account, with the right password or
\* a wrong one.
LoginRequest(p, passwordMatches) ==
  /\ pc[p] \in {"idle", "done"}
  /\ attempts < MaxAttempts
  /\ attempts' = attempts + 1
  /\ req' = [req EXCEPT ![p] = [passwordMatches |-> passwordMatches]]
  /\ res' = [res EXCEPT ![p] = "none"]
  /\ err' = [err EXCEPT ![p] = "none"]
  /\ pc' = [pc EXCEPT ![p] = "loginFindOne"]
  /\ UNCHANGED <<user, tokens, now, loc, notLogin>>

\* Lines 258-285: User.findOne loads the account; a locked one is answered 423;
\* then the password is compared.
LoginFindOne(p) ==
  /\ pc[p] = "loginFindOne"
  /\ loc' = [loc EXCEPT ![p].user = user]
  /\ IF IsLocked(user, now)
       THEN Send(p, "423", "Account is locked")
       ELSE /\ pc' = [pc EXCEPT ![p] =
                        IF req[p].passwordMatches THEN "resetLoginAttempts"
                        ELSE "incLoginAttempts"]
            /\ UNCHANGED <<res, err>>
  /\ UNCHANGED <<user, tokens, now, attempts, req, notLogin>>

\* Sale.js 216-236, called at line 288 on the document loaded: an expired lock
\* restarts the counter at 1; otherwise $inc, with a lock when the loaded
\* counter plus one reaches the maximum and the loaded document is not locked.
incLoginAttempts(this, time) ==
  IF IsDefined(this.lockUntil) /\ this.lockUntil[1] < time
    THEN [loginAttempts |-> 1, lockUntil |-> Undefined]
    ELSE [loginAttempts |-> user.loginAttempts + 1,
          lockUntil |-> IF this.loginAttempts + 1 >= MaxLoginAttempts /\ ~IsLocked(this, time)
                          THEN Some(time + LockTime)
                          ELSE user.lockUntil]

LoginIncAttempts(p) ==
  /\ pc[p] = "incLoginAttempts"
  /\ user' = incLoginAttempts(loc[p].user, now)
  /\ pc' = [pc EXCEPT ![p] = "loginFindById"]
  /\ UNCHANGED <<tokens, now, attempts, req, loc, res, err, notLogin>>

\* Lines 291-304: the account is read again: 423 when it is locked now, else 401.
LoginFindById(p) ==
  /\ pc[p] = "loginFindById"
  /\ IF IsLocked(user, now)
       THEN Send(p, "423", "Account has been locked")
       ELSE Send(p, "401", "Invalid credentials")
  /\ UNCHANGED <<user, tokens, now, attempts, req, loc, notLogin>>

\* Sale.js 239-244: resetLoginAttempts.
resetLoginAttempts == [loginAttempts |-> 0, lockUntil |-> Undefined]

\* Lines 307-313: the reset, when the document loaded shows failed attempts or
\* a lock; user.save() writes lastLogin only.
LoginReset(p) ==
  /\ pc[p] = "resetLoginAttempts"
  /\ user' = IF loc[p].user.loginAttempts > 0 \/ IsDefined(loc[p].user.lockUntil)
               THEN resetLoginAttempts
               ELSE user
  /\ pc' = [pc EXCEPT ![p] = "loginCreate"]
  /\ UNCHANGED <<tokens, now, attempts, req, loc, res, err, notLogin>>

\* Lines 316-359: the tokens are signed, the refresh token is stored and 200 is
\* answered; a token already stored is refused by the unique index and the
\* catch block (360-372) answers 500.
LoginCreate(p) ==
  /\ pc[p] = "loginCreate"
  /\ LET tokenHash == HashToken(GenerateRefreshToken("u1", now))
     IN IF \E d \in tokens : d.token = tokenHash
          THEN Send(p, "500", "Login failed") /\ UNCHANGED tokens
          ELSE /\ tokens' = tokens \cup { [token |-> tokenHash, isRevoked |-> FALSE] }
               /\ Send(p, "200", "none")
  /\ UNCHANGED <<user, now, attempts, req, loc, notLogin>>

NextLogin ==
  \/ LoginTick
  \/ \E p \in Procs : \E passwordMatches \in BOOLEAN : LoginRequest(p, passwordMatches)
  \/ \E p \in Procs : LoginFindOne(p)
  \/ \E p \in Procs : LoginIncAttempts(p)
  \/ \E p \in Procs : LoginFindById(p)
  \/ \E p \in Procs : LoginReset(p)
  \/ \E p \in Procs : LoginCreate(p)

SpecLogin == InitLogin /\ [][NextLogin]_vars

\* A step of the login handler p.
C30_Step(p) == pc[p] \notin {"idle", "done"} /\ pc'[p] # pc[p]

\* C30: an account whose counter has reached 5 has a lock set; while the lock
\* is unexpired a step of a login handler leaves the account as it is and an
\* answer is the locked one; a successful login leaves the counter at 0 and no
\* lock.
C30_LoginLockout ==
  [][/\ user'.loginAttempts >= MaxLoginAttempts => IsDefined(user'.lockUntil)
     /\ \A p \in Procs :
          (C30_Step(p) /\ IsLocked(user, now)) =>
            /\ user' = user
            /\ pc'[p] = "done" => res'[p] = "423"
     /\ \A p \in Procs :
          (C30_Step(p) /\ pc'[p] = "done" /\ res'[p] = "200") =>
            user' = resetLoginAttempts]_vars

====
